---- MODULE Spec2Model ----
(***************************************************************************)
(* A model of the two programs of lab1-webServer: the static file server   *)
(* (http_server.go: accept loop, counting semaphore, GET/POST handlers)    *)
(* and the forwarding proxy (proxy.go: accept loop, GET forwarder).        *)
(*                                                                         *)
(* Goroutines are anonymous, so the handlers in flight are kept as a bag   *)
(* of handler states: one record per accepted connection, holding the      *)
(* handler's position, its request, what it wrote to the client, and the   *)
(* resources it owns.                                                      *)
(***************************************************************************)
EXTENDS Integers, Sequences, FiniteSets, Bags, TLC

VARIABLES
    binary,     \* which program runs: "server" or "proxy"
    inputs,     \* what clients send and whether I/O calls may fail (fixed)
    waiting,    \* clients that have not connected yet
    mainPc,     \* position of the accept loop: "accept", "acquire", "go"
    mainConn,   \* the connection the accept loop holds (the local conn)
    sem,        \* number of tokens buffered in the channel sem
    conns,      \* bag of handler goroutine states
    files       \* the working directory: cleaned path -> file

vars == <<binary, inputs, waiting, mainPc, mainConn, sem, conns, files>>

-----------------------------------------------------------------------------
(* Bounds of the model.                                                    *)

\* clients of the semaphore-gate specification (more than the capacity)
GateClients == 11
\* clients of the full server / proxy specification
NumClients == 2
\* clients of the shared-files specification
FileClients == 3
\* clients of the host-strings specification
HostClients == 1

(* Program constants.                                                      *)
maxConcurrentRequests == 10
StatusOK == 200
StatusCreated == 201
StatusBadRequest == 400
StatusNotFound == 404
StatusInternalServerError == 500
StatusNotImplemented == 501
StatusBadGateway == 502
DefaultPort == <<"8", "0">>

-----------------------------------------------------------------------------
(* Sequences and bags.                                                     *)

Range(s) == {s[i] : i \in 1..Len(s)}

Max(a, b) == IF a >= b THEN a ELSE b

Put(b, e) == b (+) SetToBag({e})

Take(b, e) == b (-) SetToBag({e})

\* s occurs in t as a contiguous subsequence (strings.Contains on word lists)
Contains(t, s) ==
    \E i \in 0..(Len(t) - Len(s)) : SubSeq(t, i + 1, i + Len(s)) = s

IsPrefix(s, t) == Len(s) <= Len(t) /\ SubSeq(t, 1, Len(s)) = s

-----------------------------------------------------------------------------
(* What is written to a client connection: one token per Fprintf call, and *)
(* one token per body byte copied by io.Copy.                              *)

Tok(t, n, s) == [t |-> t, n |-> n, s |-> s]

Byte(b) == Tok("byte", b, "")

Bytes(bs) == [i \in 1..Len(bs) |-> Byte(bs[i])]

\* sendErrorResponse: status line, three headers, blank line, body
ErrorResponse(code, status) ==
    LET body == ToString(code) \o " " \o status
    IN  << Tok("status", code, status),
           Tok("ctype", 0, "text/plain"),
           Tok("clen", Len(body), ""),
           Tok("conn", 0, "close"),
           Tok("blank", 0, ""),
           Tok("text", 0, body) >>

\* the 200 OK header block of handleGet
OkHeaders(contentType, fileSize) ==
    << Tok("status", StatusOK, "OK"),
       Tok("ctype", 0, contentType),
       Tok("clen", fileSize, ""),
       Tok("conn", 0, "close"),
       Tok("blank", 0, "") >>

\* the 201 Created response of handlePost
CreatedResponse ==
    << Tok("status", StatusCreated, "Created"),
       Tok("ctype", 0, "text/plain"),
       Tok("clen", 0, ""),
       Tok("conn", 0, "close"),
       Tok("blank", 0, "") >>

\* observers of a token stream
StatusCodes(out) == SelectSeq(out, LAMBDA k : k.t = "status")

BodyOf(out) ==
    LET bs == SelectSeq(out, LAMBDA k : k.t = "byte")
    IN  [i \in 1..Len(bs) |-> bs[i].n]

ContentLengths(out) == SelectSeq(out, LAMBDA k : k.t = "clen")

-----------------------------------------------------------------------------
(* Paths. A path string is kept as the list of its elements between        *)
(* slashes: "./" is <<".", "">>, "/a.txt" is <<"", "a.txt">>.              *)

DotSlash == <<".", "">>

\* string concatenation a + b on element lists
PathConcat(a, b) ==
    IF a = <<>> THEN b
    ELSE IF b = <<>> THEN a
    ELSE SubSeq(a, 1, Len(a) - 1) \o <<a[Len(a)] \o b[1]>> \o Tail(b)

\* filepath.Clean of a relative path: drop empty and "." elements, resolve
\* "..", and return "." for an empty result. The result never ends in a slash.
RECURSIVE CleanElems(_, _)
CleanElems(todo, acc) ==
    IF todo = <<>> THEN acc
    ELSE LET e == Head(todo)
         IN  IF e = "" \/ e = "."
             THEN CleanElems(Tail(todo), acc)
             ELSE IF e = ".."
             THEN IF acc # <<>> /\ acc[Len(acc)] # ".."
                  THEN CleanElems(Tail(todo), SubSeq(acc, 1, Len(acc) - 1))
                  ELSE CleanElems(Tail(todo), Append(acc, ".."))
             ELSE CleanElems(Tail(todo), Append(acc, e))

Clean(p) ==
    LET r == CleanElems(p, <<>>)
    IN  IF r = <<>> THEN <<".">> ELSE r

\* filepath.Ext: the suffix of the last element from its final dot
Ext(p) ==
    LET name == p[Len(p)]
    IN  CASE name = "a.txt" -> ".txt"
          [] name = "a.bin" -> ".bin"
          [] name = "index.html" -> ".html"
          [] name = "." -> "."
          [] name = ".." -> "."
          [] OTHER -> ""

\* filepath.Dir: all but the last element
Dir(p) == IF Len(p) <= 1 THEN <<".">> ELSE SubSeq(p, 1, Len(p) - 1)

\* the mimeTypes table
mimeTypes ==
    [e \in {".html", ".txt", ".gif", ".jpeg", ".jpg", ".css"} |->
        CASE e = ".html" -> "text/html"
          [] e = ".txt" -> "text/plain"
          [] e = ".gif" -> "image/gif"
          [] e = ".jpeg" -> "image/jpeg"
          [] e = ".jpg" -> "image/jpeg"
          [] e = ".css" -> "text/css"]

-----------------------------------------------------------------------------
(* Requests. What http.ReadRequest returns for a connection: an error      *)
(* (io.EOF, or an error with a message), or a request.                     *)

NoHost == <<>>

Input(eof, msg, method, path, urlHost, hostHdr, body) ==
    [eof |-> eof, msg |-> msg, method |-> method, path |-> path,
     urlHost |-> urlHost, hostHdr |-> hostHdr, body |-> body,
     header |-> {}]

ParseError(eof, msg) == Input(eof, msg, "", <<>>, NoHost, NoHost, <<>>)

NoInput == ParseError(FALSE, <<>>)

\* the client closed before sending anything: io.EOF
ErrEOF == ParseError(TRUE, <<"EOF">>)

\* "read tcp ...: read: connection reset by peer"
ErrReset == ParseError(FALSE, <<"read:", "connection", "reset", "by", "peer">>)

\* the request line "FOO": malformed HTTP request "FOO"
ErrMalformed == ParseError(FALSE, <<"malformed", "HTTP", "request", "FOO">>)

\* the request line "connection reset": ReadRequest quotes the line in its
\* error, malformed HTTP request "connection reset"
ErrMalformedEcho ==
    ParseError(FALSE, <<"malformed", "HTTP", "request", "connection", "reset">>)

ServerRequest(method, path, body) ==
    Input(FALSE, <<>>, method, path, NoHost, <<"s">>, body)

ParseFailed(in) == in.eof \/ in.msg # <<>>

\* URL paths: "/", "/a.txt", "/a.bin"
UrlRoot == <<"", "">>
UrlATxt == <<"", "a.txt">>
UrlABin == <<"", "a.bin">>

\* host strings, one character per element: "h" and "h:8"
HostH == <<"h">>
HostHPort == <<"h", ":", "8">>

\* "h:" (an empty port), and the IPv6 literals "[::1]", "[::1]:8" and "::1"
HostHColon == <<"h", ":">>
HostV6 == <<"[", ":", ":", "1", "]">>
HostV6Port == <<"[", ":", ":", "1", "]", ":", "8">>
HostV6Bare == <<":", ":", "1">>

\* the header fields a proxy client sends
ProxyHeader == {<<"Proxy-Connection", "keep-alive">>, <<"Accept", "*/*">>}

\* a request in absolute form ("GET http://h/a.txt HTTP/1.1")
AbsoluteRequest(method, host) ==
    [Input(FALSE, <<>>, method, UrlATxt, host, host, <<>>)
        EXCEPT !.header = ProxyHeader]

\* a request in origin form ("GET /a.txt HTTP/1.1") with a Host header
OriginRequest(method, hostHdr) ==
    [Input(FALSE, <<>>, method, UrlATxt, NoHost, hostHdr, <<>>)
        EXCEPT !.header = ProxyHeader]

\* what clients of the proxy send
ProxyInputs ==
    {ErrEOF, ErrReset, ErrMalformed, ErrMalformedEcho}
    \cup {AbsoluteRequest("POST", HostH)}
    \cup {AbsoluteRequest("GET", h) : h \in {HostH, HostHPort}}
    \cup {OriginRequest("GET", h) : h \in {HostH, NoHost}}

\* what clients send in the host-strings specification: GETs that name the
\* upstream in every form a host string takes
HostInputs ==
    {AbsoluteRequest("GET", h) :
        h \in {HostH, HostHPort, HostHColon, HostV6, HostV6Port, HostV6Bare}}
    \cup {OriginRequest("GET", h) : h \in {HostH, HostHColon, HostV6, NoHost}}
    \cup {AbsoluteRequest("POST", HostV6)}

\* what an upstream server sends before it closes the connection
Replies == {<<>>, <<7>>, <<7, 8>>}

\* what clients of the file server send
ServerInputs ==
    {ErrEOF, ErrReset, ErrMalformed, ErrMalformedEcho}
    \cup {ServerRequest("PUT", UrlATxt, <<>>)}
    \cup {ServerRequest("GET", p, <<>>) : p \in {UrlRoot, UrlATxt, UrlABin}}
    \cup {ServerRequest("POST", UrlRoot, <<3>>)}
    \cup {ServerRequest("POST", UrlATxt, b) : b \in {<<3>>, <<4, 5>>}}

\* what clients send in the shared-files specification: reads and writes of
\* one path
FileInputs ==
    {ServerRequest("GET", UrlATxt, <<>>)}
    \cup {ServerRequest("POST", UrlATxt, b) : b \in {<<3>>, <<4>>}}

\* what clients send in the semaphore-gate specification: requests whose
\* handling never reaches the file handlers
GateInputs == {ErrEOF, ServerRequest("PUT", UrlATxt, <<>>)}

-----------------------------------------------------------------------------
(* The working directory.                                                  *)

NoFile == [exists |-> FALSE, data |-> <<>>]

File(data) == [exists |-> TRUE, data |-> data]

FsPaths == {<<"a.txt">>}

IsDir(p) == p = <<".">>

\* a write of bs at offset off (a gap past the end reads as zero bytes)
WriteAt(data, off, bs) ==
    [i \in 1..Max(Len(data), off + Len(bs)) |->
        IF i > off /\ i <= off + Len(bs) THEN bs[i - off]
        ELSE IF i <= Len(data) THEN data[i]
        ELSE 0]

\* a read at offset off up to the end of the file
ReadFrom(data, off) ==
    IF off >= Len(data) THEN <<>> ELSE SubSeq(data, off + 1, Len(data))

-----------------------------------------------------------------------------
(* Handler state.                                                          *)

NoHandle == [open |-> FALSE, path |-> <<>>, off |-> 0]

Handle(path) == [open |-> TRUE, path |-> path, off |-> 0]

NoUpstream ==
    [state |-> "none",      \* "none", "open" or "closed"
     reply |-> <<>>,        \* the bytes the upstream sends before it closes
     read |-> 0,            \* how many of them the proxy has passed on
     got |-> <<>>,          \* the requests written to the upstream
     closes |-> 0]          \* calls of remoteConn.Close

\* a freshly accepted connection
NewConn ==
    [pc |-> "accepted",
     req |-> NoInput,       \* result of http.ReadRequest
     out |-> <<>>,          \* what was written to the client connection
     closed |-> 0,          \* calls of conn.Close
     released |-> 0,        \* receives from sem by this handler
     late |-> FALSE,        \* the connection was used after conn.Close
     path |-> <<>>,         \* the local variable path
     fh |-> NoHandle,       \* the local variable file
     size |-> 0,            \* the local variable fileSize
     todo |-> <<>>,         \* unread part of req.Body
     fsOps |-> 0,           \* filesystem calls made for this request
     iofail |-> FALSE,      \* an I/O call of this handler failed
     posted |-> {},         \* history, GET: the POSTs to its path that had
                            \*   been answered 201 when the request was read
     clobbered |-> FALSE,   \* history, POST: another handler created or wrote
                            \*   the file after this handler created it
     disturbed |-> FALSE,   \* history, GET: a handler created or wrote the
                            \*   file while this request was being served
     target |-> NoHost,     \* the local variable targetHost
     dials |-> 0,           \* calls of net.Dial
     up |-> NoUpstream]     \* the upstream connection remoteConn

NoConn == [NewConn EXCEPT !.pc = "none"]

Handlers == BagToSet(conns)

\* handlers that keep the path in a variable of the package: a step of one
\* sets it for all
StepSharingPath(c, d) ==
    conns' = BagOfAll(LAMBDA x : [x EXCEPT !.path = d.path], Put(Take(conns, c), d))

\* handler c takes a step to state d
Step(c, d) == conns' = Put(Take(conns, c), d)

\* handler c has answered a POST to path with 201 Created
Answered201(c, path) ==
    /\ c.req.method = "POST"
    /\ c.fh.path = path
    /\ \E i \in 1..Len(c.out) : c.out[i] = Tok("status", StatusCreated, "Created")

\* fmt.Fprintf(conn, ...) calls
ConnWrite(c, toks) ==
    [c EXCEPT !.out = @ \o toks, !.late = @ \/ c.closed > 0]

\* a read from the client connection
ConnRead(c) == [c EXCEPT !.late = @ \/ c.closed > 0]

sendErrorResponse(c, code, status) == ConnWrite(c, ErrorResponse(code, status))

\* a return that runs conn.Close() alone, the release not being deferred
ReturnWithoutRelease(c) == [c EXCEPT !.pc = "close"]

\* return from the handler body: the deferred calls run next
Return(c) == [c EXCEPT !.pc = "release"]

-----------------------------------------------------------------------------
(* The server's accept loop (main).                                        *)

\* conn, err := listener.Accept()
Accept ==
    /\ mainPc = "accept"
    /\ waiting > 0
    /\ waiting' = waiting - 1
    /\ mainConn' = NewConn
    /\ mainPc' = IF binary = "server" THEN "acquire" ELSE "go"
    /\ UNCHANGED <<binary, inputs, sem, conns, files>>

\* a gate that admits one sender more than the channel holds
SemHasRoomOffByOne == sem <= maxConcurrentRequests

\* a send on the buffered channel blocks while it is full
SemHasRoom == sem < maxConcurrentRequests

\* a non-blocking send that turns the connection away when the channel is
\* full: the accept loop closes it and goes back to Accept
AcquireRejecting ==
    /\ binary = "server"
    /\ mainPc = "acquire"
    /\ IF SemHasRoom
       THEN /\ sem' = sem + 1
            /\ mainPc' = "go"
            /\ UNCHANGED <<mainConn, conns>>
       ELSE /\ sem' = sem
            /\ mainPc' = "accept"
            /\ mainConn' = NoConn
            /\ conns' = Put(conns, [mainConn EXCEPT !.closed = 1, !.pc = "done"])
    /\ UNCHANGED <<binary, inputs, waiting, files>>

\* a non-blocking send that goes on to launch the handler when the channel
\* is full
AcquireSkipping ==
    /\ binary = "server"
    /\ mainPc = "acquire"
    /\ sem' = IF SemHasRoom THEN sem + 1 ELSE sem
    /\ mainPc' = "go"
    /\ UNCHANGED <<binary, inputs, waiting, mainConn, conns, files>>

\* sem <- struct{}{}
Acquire ==
    /\ binary = "server"
    /\ mainPc = "acquire"
    /\ SemHasRoom
    /\ sem' = sem + 1
    /\ mainPc' = "go"
    /\ UNCHANGED <<binary, inputs, waiting, mainConn, conns, files>>

\* go handleConnection(conn, sem) / go handleProxyRequest(conn)
Launch ==
    /\ mainPc = "go"
    /\ conns' = Put(conns, [mainConn EXCEPT !.pc = "parse"])
    /\ mainConn' = NoConn
    /\ mainPc' = "accept"
    /\ UNCHANGED <<binary, inputs, waiting, sem, files>>

-----------------------------------------------------------------------------
(* handleConnection.                                                       *)

ConnectionReset == <<"connection", "reset">>

\* err == io.EOF || strings.Contains(err.Error(), "connection reset")
IsBenign(err) == err.eof \/ Contains(err.msg, ConnectionReset)

\* req, err := http.ReadRequest(reader), and the error branch
ParsedRequest(c, in) ==
    LET d == [ConnRead(c) EXCEPT
                !.req = in, !.todo = in.body,
                !.posted = IF in.method # "GET" THEN {}
                           ELSE {[body |-> r.req.body, intact |-> ~r.clobbered] :
                                   r \in {x \in Handlers :
                                       Answered201(x, Clean(PathConcat(DotSlash, in.path)))}}]
    IN  IF ParseFailed(in)
        THEN IF ~IsBenign(in)
             THEN Return(sendErrorResponse(d, StatusBadRequest, "Bad Request"))
             ELSE Return(d)
        ELSE [d EXCEPT !.pc = "dispatch"]

ParseRequest ==
    /\ \E c \in Handlers : \E in \in inputs.sent :
          /\ c.pc = "parse"
          /\ Step(c, ParsedRequest(c, in))
    /\ UNCHANGED <<binary, inputs, waiting, mainPc, mainConn, sem, files>>

\* a switch whose default case falls into the GET handler
RouteDefaultGet(method) ==
    CASE method = "POST" -> "post"
      [] OTHER -> "get"

\* switch req.Method
Route(method) ==
    CASE method = "GET" -> "get"
      [] method = "POST" -> "post"
      [] OTHER -> "other"

\* a dispatcher that closes the connection itself before answering 501
DispatchedClosingFirst(c) ==
    LET r == Route(c.req.method)
    IN  IF r = "other"
        THEN Return(sendErrorResponse([c EXCEPT !.closed = @ + 1],
                        StatusNotImplemented, "Not Implemented"))
        ELSE [c EXCEPT !.pc = r]

Dispatched(c) ==
    LET r == Route(c.req.method)
    IN  IF r = "other"
        THEN Return(sendErrorResponse(c, StatusNotImplemented, "Not Implemented"))
        ELSE [c EXCEPT !.pc = r]

Dispatch ==
    /\ binary = "server"
    /\ \E c \in Handlers :
          /\ c.pc = "dispatch"
          /\ Step(c, Dispatched(c))
    /\ UNCHANGED <<binary, inputs, waiting, mainPc, mainConn, sem, files>>

\* the deferred func: <-sem
Released(c) == [c EXCEPT !.released = @ + 1, !.pc = "close"]

Release ==
    /\ binary = "server"
    /\ sem > 0
    /\ \E c \in Handlers :
          /\ c.pc = "release"
          /\ Step(c, Released(c))
    /\ sem' = sem - 1
    /\ UNCHANGED <<binary, inputs, waiting, mainPc, mainConn, files>>

\* the deferred conn.Close()
Closed(c) == [c EXCEPT !.closed = @ + 1, !.pc = "done"]

Close ==
    /\ \E c \in Handlers :
          /\ c.pc = IF binary = "server" THEN "close" ELSE "release"
          /\ Step(c, Closed(c))
    /\ UNCHANGED <<binary, inputs, waiting, mainPc, mainConn, sem, files>>

-----------------------------------------------------------------------------
(* handleGet.                                                              *)

IndexHtml == <<".", "index.html">>

\* path := filepath.Clean("./" + req.URL.Path), with the "./" default
GetPath(urlPath) ==
    LET path == Clean(PathConcat(DotSlash, urlPath))
    IN  IF path = DotSlash THEN IndexHtml ELSE path

\* a handler that opens the file before it looks at the extension
GetResolvedOpenFirst(c) ==
    [c EXCEPT !.path = GetPath(c.req.path), !.pc = "getOpen"]

\* step 1: the extension check
GetResolved(c) ==
    LET path == GetPath(c.req.path)
    IN  IF Ext(path) \notin DOMAIN mimeTypes
        THEN Return(sendErrorResponse(c, StatusBadRequest,
                                      "Bad Request: Unsupported file type"))
        ELSE [c EXCEPT !.path = path, !.pc = "getOpen"]

GetResolve ==
    /\ \E c \in Handlers :
          /\ c.pc = "get"
          /\ Step(c, GetResolved(c))
    /\ UNCHANGED <<binary, inputs, waiting, mainPc, mainConn, sem, files>>

FileExists(path) == path \in DOMAIN files /\ files[path].exists

\* step 2: file, err := os.Open(path)
GetOpened(c, fault) ==
    LET d == [c EXCEPT !.fsOps = @ + 1]
    IN  IF fault
        THEN Return(sendErrorResponse([d EXCEPT !.iofail = TRUE],
                        StatusInternalServerError, "Internal Server Error"))
        ELSE IF ~FileExists(c.path)
        THEN Return(sendErrorResponse(d, StatusNotFound, "Not Found"))
        ELSE [d EXCEPT !.fh = Handle(c.path), !.pc = "getStat"]

GetOpen ==
    /\ \E c \in Handlers : \E fault \in inputs.faults :
          /\ c.pc = "getOpen"
          /\ Step(c, GetOpened(c, fault))
    /\ UNCHANGED <<binary, inputs, waiting, mainPc, mainConn, sem, files>>

\* steps 3 and 4: file.Stat(), then the 200 OK header block
GetStatted(c, fault) ==
    LET d == [c EXCEPT !.fsOps = @ + 1]
        fileSize == Len(files[c.path].data)
    IN  IF fault
        THEN Return(sendErrorResponse(
                        [d EXCEPT !.iofail = TRUE, !.fh.open = FALSE],
                        StatusInternalServerError, "Internal Server Error"))
        ELSE ConnWrite([d EXCEPT !.size = fileSize, !.pc = "getCopy"],
                       OkHeaders(mimeTypes[Ext(c.path)], fileSize))

GetStat ==
    /\ \E c \in Handlers : \E fault \in inputs.faults :
          /\ c.pc = "getStat"
          /\ Step(c, GetStatted(c, fault))
    /\ UNCHANGED <<binary, inputs, waiting, mainPc, mainConn, sem, files>>

\* a handler that answers a failed copy with 500 like the failures before it
GetCopiedAnswering500(c, fault) ==
    LET d == [c EXCEPT !.fsOps = @ + 1]
        chunk == ReadFrom(files[c.path].data, c.fh.off)
    IN  IF fault
        THEN Return(sendErrorResponse(
                        [d EXCEPT !.iofail = TRUE, !.fh.open = FALSE],
                        StatusInternalServerError, "Internal Server Error"))
        ELSE IF chunk = <<>>
        THEN Return([d EXCEPT !.fh.open = FALSE])
        ELSE ConnWrite([d EXCEPT !.fh.off = @ + Len(chunk)], Bytes(chunk))

\* step 5: one round of io.Copy(conn, file): read what the file holds past
\* the handle's offset and write it to the client; stop at end of file or at
\* the first failed read or write. The deferred file.Close() follows.
GetCopied(c, fault) ==
    LET d == [c EXCEPT !.fsOps = @ + 1]
        chunk == ReadFrom(files[c.path].data, c.fh.off)
    IN  IF fault
        THEN Return([d EXCEPT !.iofail = TRUE, !.fh.open = FALSE])
        ELSE IF chunk = <<>>
        THEN Return([d EXCEPT !.fh.open = FALSE])
        ELSE ConnWrite([d EXCEPT !.fh.off = @ + Len(chunk)], Bytes(chunk))

GetCopy ==
    /\ \E c \in Handlers : \E fault \in inputs.faults :
          /\ c.pc = "getCopy"
          /\ Step(c, GetCopied(c, fault))
    /\ UNCHANGED <<binary, inputs, waiting, mainPc, mainConn, sem, files>>

-----------------------------------------------------------------------------
(* handlePost.                                                             *)

\* steps 1 and 2: clean the path, os.MkdirAll(filepath.Dir(path), 0755)
PostMkdirDone(c, fault) ==
    LET path == Clean(PathConcat(DotSlash, c.req.path))
        d == [c EXCEPT !.path = path, !.fsOps = @ + 1]
    IN  IF fault
        THEN Return(sendErrorResponse([d EXCEPT !.iofail = TRUE],
                        StatusInternalServerError, "Internal Server Error"))
        ELSE [d EXCEPT !.pc = "postCreate"]

PostMkdir ==
    /\ \E c \in Handlers : \E fault \in inputs.faults :
          /\ c.pc = "post"
          /\ Step(c, PostMkdirDone(c, fault))
    /\ UNCHANGED <<binary, inputs, waiting, mainPc, mainConn, sem, files>>

\* os.Create fails on a directory, or when the system refuses
CreateFails(path, fault) == fault \/ IsDir(path) \/ path \notin DOMAIN files

\* history: what handler x records when another handler creates or writes
\* the file at path
Noting(x, path) ==
    IF x.req.method = "POST" /\ x.fh.path = path
    THEN [x EXCEPT !.clobbered = TRUE]
    ELSE IF /\ x.req.method = "GET"
            /\ x.pc \notin {"parse", "release", "close", "done"}
            /\ GetPath(x.req.path) = path
    THEN [x EXCEPT !.disturbed = TRUE]
    ELSE x

\* handler c takes a step to state d in which it creates or writes the file
\* at path
StepWriting(c, d, path) ==
    conns' = Put(BagOfAll(LAMBDA x : Noting(x, path), Take(conns, c)), d)

\* a create that leaves the old content in place (no O_TRUNC)
CreatedOverNotTruncated(f) == File(f.data)

\* the file os.Create leaves: empty, whatever was there
CreatedOver(f) == File(<<>>)

\* step 3: file, err := os.Create(path), which truncates an existing file
PostCreated(c, fault) ==
    LET d == [c EXCEPT !.fsOps = @ + 1]
    IN  IF CreateFails(c.path, fault)
        THEN Return(sendErrorResponse([d EXCEPT !.iofail = TRUE],
                        StatusInternalServerError, "Internal Server Error"))
        ELSE [d EXCEPT !.fh = Handle(c.path), !.pc = "postCopy"]

PostCreate ==
    /\ \E c \in Handlers : \E fault \in inputs.faults :
          /\ c.pc = "postCreate"
          /\ IF CreateFails(c.path, fault)
             THEN Step(c, PostCreated(c, fault)) /\ files' = files
             ELSE /\ StepWriting(c, PostCreated(c, fault), c.path)
                  /\ files' = [files EXCEPT ![c.path] = CreatedOver(@)]
    /\ UNCHANGED <<binary, inputs, waiting, mainPc, mainConn, sem>>

\* steps 4 and 5: one round of io.Copy(file, req.Body): read k bytes of the
\* body and write them at the handle's offset; at the end of the body send
\* 201 Created; on a failed read or write send 500. The deferred
\* file.Close() follows.
PostCopied(c, k, fault) ==
    LET d == [c EXCEPT !.fsOps = @ + 1]
    IN  IF c.todo = <<>>
        THEN Return(ConnWrite([c EXCEPT !.fh.open = FALSE], CreatedResponse))
        ELSE IF fault
        THEN Return(sendErrorResponse(
                        [ConnRead(d) EXCEPT !.iofail = TRUE, !.fh.open = FALSE],
                        StatusInternalServerError, "Internal Server Error"))
        ELSE [ConnRead(d) EXCEPT !.todo = SubSeq(c.todo, k + 1, Len(c.todo)),
                                 !.fh.off = @ + k]

PostCopy ==
    /\ \E c \in Handlers : \E fault \in inputs.faults :
       \E k \in 1..Max(1, Len(c.todo)) :
          /\ c.pc = "postCopy"
          /\ IF c.todo = <<>> \/ fault
             THEN Step(c, PostCopied(c, k, fault)) /\ files' = files
             ELSE /\ StepWriting(c, PostCopied(c, k, fault), c.path)
                  /\ files' = [files EXCEPT ![c.path].data =
                                  WriteAt(@, c.fh.off, SubSeq(c.todo, 1, k))]
    /\ UNCHANGED <<binary, inputs, waiting, mainPc, mainConn, sem>>

-----------------------------------------------------------------------------
(* Host strings (net.SplitHostPort, net.JoinHostPort).                     *)

\* 1-based positions of a character in a string; 0 when it does not occur
IndexByte(s, ch) ==
    IF ch \in Range(s)
    THEN CHOOSE i \in 1..Len(s) : s[i] = ch /\ \A j \in 1..(i - 1) : s[j] # ch
    ELSE 0

LastIndexByte(s, ch) ==
    IF ch \in Range(s)
    THEN CHOOSE i \in 1..Len(s) : s[i] = ch /\ \A j \in (i + 1)..Len(s) : s[j] # ch
    ELSE 0

From(s, i) == SubSeq(s, i, Len(s))

AddrError(why) == [host |-> <<>>, port |-> <<>>, err |-> why]

\* net.SplitHostPort
SplitHostPort(hostport) ==
    LET i == LastIndexByte(hostport, ":")
        end == IndexByte(hostport, "]")
        bracketed == hostport[1] = "["
        host == IF bracketed THEN SubSeq(hostport, 2, end - 1)
                ELSE SubSeq(hostport, 1, i - 1)
        j == IF bracketed THEN 2 ELSE 1
        k == IF bracketed THEN end + 1 ELSE 1
    IN  IF i = 0 THEN AddrError("missing port in address")
        ELSE IF bracketed /\ end = 0 THEN AddrError("missing ']' in address")
        ELSE IF bracketed /\ end = Len(hostport)
        THEN AddrError("missing port in address")
        ELSE IF bracketed /\ end + 1 # i /\ hostport[end + 1] = ":"
        THEN AddrError("too many colons in address")
        ELSE IF bracketed /\ end + 1 # i
        THEN AddrError("missing port in address")
        ELSE IF ~bracketed /\ ":" \in Range(host)
        THEN AddrError("too many colons in address")
        ELSE IF "[" \in Range(From(hostport, j))
        THEN AddrError("unexpected '[' in address")
        ELSE IF "]" \in Range(From(hostport, k))
        THEN AddrError("unexpected ']' in address")
        ELSE [host |-> host, port |-> From(hostport, i + 1), err |-> ""]

\* net.JoinHostPort
JoinHostPort(host, port) ==
    IF ":" \in Range(host)
    THEN <<"[">> \o host \o <<"]", ":">> \o port
    ELSE host \o <<":">> \o port

\* net.Dial can reach a listener only at an address that splits into a host
\* and a port
Dialable(addr) ==
    LET hp == SplitHostPort(addr)
    IN  hp.err = "" /\ hp.port # <<>>

-----------------------------------------------------------------------------
(* handleProxyRequest.                                                     *)

\* step 2: if req.Method != "GET"
ProxyDispatched(c) ==
    IF c.req.method # "GET"
    THEN Return(sendErrorResponse(c, StatusNotImplemented, "Not Implemented"))
    ELSE [c EXCEPT !.pc = "forward"]

ProxyDispatch ==
    /\ binary = "proxy"
    /\ \E c \in Handlers :
          /\ c.pc = "dispatch"
          /\ Step(c, ProxyDispatched(c))
    /\ UNCHANGED <<binary, inputs, waiting, mainPc, mainConn, sem, files>>

-----------------------------------------------------------------------------
(* forwardRequest.                                                         *)

\* req.Host as http.ReadRequest sets it: the URL's host, else the Host header
ReqHost(req) == IF req.urlHost # NoHost THEN req.urlHost ELSE req.hostHdr

\* step 1: targetHost := req.URL.Host, falling back to req.Host
TargetHost(req) == IF req.urlHost = NoHost THEN ReqHost(req) ELSE req.urlHost

\* step 2: add the default port when the host does not split
WithPort(targetHost) ==
    IF SplitHostPort(targetHost).err # ""
    THEN JoinHostPort(targetHost, DefaultPort)
    ELSE targetHost

\* a forwarder that reports the missing host and goes on to dial
ForwardResolvedNoReturn(c) ==
    LET targetHost == TargetHost(c.req)
    IN  IF targetHost = NoHost
        THEN [sendErrorResponse(c, StatusBadRequest,
                                "Bad Request: Missing host in request")
                EXCEPT !.target = WithPort(targetHost), !.pc = "dial"]
        ELSE [c EXCEPT !.target = WithPort(targetHost), !.pc = "dial"]

ForwardResolved(c) ==
    LET targetHost == TargetHost(c.req)
    IN  IF targetHost = NoHost
        THEN Return(sendErrorResponse(c, StatusBadRequest,
                                      "Bad Request: Missing host in request"))
        ELSE [c EXCEPT !.target = WithPort(targetHost), !.pc = "dial"]

ForwardResolve ==
    /\ \E c \in Handlers :
          /\ c.pc = "forward"
          /\ Step(c, ForwardResolved(c))
    /\ UNCHANGED <<binary, inputs, waiting, mainPc, mainConn, sem, files>>

\* the state of a connection to an upstream that will send reply
Upstream(reply) == [NoUpstream EXCEPT !.state = "open", !.reply = reply]

\* step 3: remoteConn, err := net.Dial("tcp", targetHost)
ForwardDialed(c, fault, reply) ==
    LET d == [c EXCEPT !.dials = @ + 1]
    IN  IF fault \/ ~Dialable(c.target)
        THEN Return(sendErrorResponse([d EXCEPT !.iofail = TRUE],
                        StatusBadGateway, "Bad Gateway: Could not connect to host"))
        ELSE [d EXCEPT !.up = Upstream(reply), !.pc = "forwardWrite"]

ForwardDial ==
    /\ \E c \in Handlers : \E fault \in inputs.faults : \E reply \in inputs.replies :
          /\ c.pc = "dial"
          /\ Step(c, ForwardDialed(c, fault, reply))
    /\ UNCHANGED <<binary, inputs, waiting, mainPc, mainConn, sem, files>>

\* req.Header.Del("Proxy-Connection"); req.Header.Set("Connection", "close")
RewriteHeader(header) ==
    {h \in header : h[1] \notin {"Proxy-Connection", "Connection"}}
        \cup {<<"Connection", "close">>}

\* what req.Write sends: the request line with the URL's path, the Host line
\* and the header
Outgoing(req) ==
    [method |-> req.method, uri |-> req.path, host |-> ReqHost(req),
     header |-> RewriteHeader(req.header)]

\* a forwarder without the deferred close
CloseUpstreamNever(c) == c

\* the deferred remoteConn.Close()
CloseUpstream(c) == [c EXCEPT !.up.state = "closed", !.up.closes = @ + 1]

\* a forwarder that reports the failed write and goes on to the relay
ForwardWrittenNoReturn(c, fault) ==
    IF fault
    THEN [sendErrorResponse([c EXCEPT !.iofail = TRUE], StatusBadGateway,
                            "Bad Gateway: Error writing to remote")
            EXCEPT !.pc = "relay"]
    ELSE [c EXCEPT !.up.got = Append(@, Outgoing(c.req)), !.pc = "relay"]

\* step 4: rewrite the request and req.Write(remoteConn)
ForwardWritten(c, fault) ==
    IF fault
    THEN Return(CloseUpstream(sendErrorResponse([c EXCEPT !.iofail = TRUE],
                    StatusBadGateway, "Bad Gateway: Error writing to remote")))
    ELSE [c EXCEPT !.up.got = Append(@, Outgoing(c.req)), !.pc = "relay"]

ForwardWrite ==
    /\ \E c \in Handlers : \E fault \in inputs.faults :
          /\ c.pc = "forwardWrite"
          /\ Step(c, ForwardWritten(c, fault))
    /\ UNCHANGED <<binary, inputs, waiting, mainPc, mainConn, sem, files>>

\* a copy that loses the first byte of every round
RelayChunkShort(c, k) == SubSeq(c.up.reply, c.up.read + 2, c.up.read + k)

\* the bytes one round of the copy moves: the next k the upstream sends
RelayChunk(c, k) == SubSeq(c.up.reply, c.up.read + 1, c.up.read + k)

\* a forwarder that answers a failed copy with 502 like the failures before it
RelayedAnswering502(c, k, fault) ==
    IF c.up.read = Len(c.up.reply)
    THEN Return(CloseUpstream(c))
    ELSE IF fault
    THEN Return(CloseUpstream(sendErrorResponse(
                    ConnWrite([c EXCEPT !.iofail = TRUE, !.up.read = @ + k - 1],
                              Bytes(RelayChunk(c, k - 1))),
                    StatusBadGateway, "Bad Gateway: Error reading from remote")))
    ELSE ConnWrite([c EXCEPT !.up.read = @ + k], Bytes(RelayChunk(c, k)))

\* step 5: one round of io.Copy(clientConn, remoteConn): read k bytes from
\* the upstream and write them to the client; stop when the upstream has
\* closed (EOF) or at the first failed read or write. A round that fails
\* has passed on k - 1 bytes: none when the read failed, the part the client
\* took when the write failed. The error is logged and nothing else is
\* written. The deferred remoteConn.Close() follows.
Relayed(c, k, fault) ==
    IF c.up.read = Len(c.up.reply)
    THEN Return(CloseUpstream(c))
    ELSE IF fault
    THEN Return(CloseUpstream(
                    ConnWrite([c EXCEPT !.iofail = TRUE, !.up.read = @ + k - 1],
                              Bytes(RelayChunk(c, k - 1)))))
    ELSE ConnWrite([c EXCEPT !.up.read = @ + k], Bytes(RelayChunk(c, k)))

Relay ==
    /\ \E c \in Handlers : \E fault \in inputs.faults :
       \E k \in 1..Max(1, Len(c.up.reply) - c.up.read) :
          /\ c.pc = "relay"
          /\ Step(c, Relayed(c, k, fault))
    /\ UNCHANGED <<binary, inputs, waiting, mainPc, mainConn, sem, files>>

-----------------------------------------------------------------------------
(* The semaphore gate alone: the server with more clients than slots,      *)
(* sending requests that are answered without the file handlers.           *)

InitialFiles == [p \in FsPaths |-> NoFile]

\* a.txt holds two bytes
ExistingFiles == [InitialFiles EXCEPT ![<<"a.txt">>] = File(<<1, 2>>)]

InitGate ==
    /\ binary = "server"
    /\ inputs = [sent |-> GateInputs, faults |-> {FALSE}, replies |-> {}]
    /\ waiting = GateClients
    /\ mainPc = "accept"
    /\ mainConn = NoConn
    /\ sem = 0
    /\ conns = EmptyBag
    /\ files = InitialFiles

NextGate ==
    \/ Accept
    \/ Acquire
    \/ Launch
    \/ ParseRequest
    \/ Dispatch
    \/ Release
    \/ Close

SpecGate == InitGate /\ [][NextGate]_vars

\* The same under the scheduling of the Go runtime: a goroutine that can run
\* does run, and a sender blocked on the channel proceeds once a slot is
\* free. ParseRequest is left out: whether a handler's read returns depends
\* on what its client sends, and when.
SpecGateFair ==
    /\ SpecGate
    /\ WF_vars(Acquire)
    /\ WF_vars(Launch)
    /\ WF_vars(Dispatch)
    /\ WF_vars(Release)
    /\ WF_vars(Close)

-----------------------------------------------------------------------------
(* Either program, with every kind of request and failing I/O calls. The   *)
(* proxy shares the accept loop (without the semaphore), the parse step    *)
(* and the deferred conn.Close() with the server.                          *)

Init ==
    /\ binary \in {"server", "proxy"}
    /\ inputs = IF binary = "server"
                THEN [sent |-> ServerInputs, faults |-> BOOLEAN, replies |-> {}]
                ELSE [sent |-> ProxyInputs, faults |-> BOOLEAN, replies |-> Replies]
    /\ waiting = NumClients
    /\ mainPc = "accept"
    /\ mainConn = NoConn
    /\ sem = 0
    /\ conns = EmptyBag
    /\ files \in IF binary = "server"
                  THEN {InitialFiles, ExistingFiles}
                  ELSE {InitialFiles}

ServerNext ==
    \/ Accept
    \/ Acquire
    \/ Launch
    \/ ParseRequest
    \/ Dispatch
    \/ GetResolve
    \/ GetOpen
    \/ GetStat
    \/ GetCopy
    \/ PostMkdir
    \/ PostCreate
    \/ PostCopy
    \/ Release
    \/ Close

ProxyNext ==
    \/ ProxyDispatch
    \/ ForwardResolve
    \/ ForwardDial
    \/ ForwardWrite
    \/ Relay

Next == ServerNext \/ ProxyNext

Spec == Init /\ [][Next]_vars

-----------------------------------------------------------------------------
(* The file server with clients that read and write the same file, and no  *)
(* failing I/O call: what handlers running side by side do to one file.    *)

InitFiles ==
    /\ binary = "server"
    /\ inputs = [sent |-> FileInputs, faults |-> {FALSE}, replies |-> {}]
    /\ waiting = FileClients
    /\ mainPc = "accept"
    /\ mainConn = NoConn
    /\ sem = 0
    /\ conns = EmptyBag
    /\ files = ExistingFiles

SpecFiles == InitFiles /\ [][ServerNext]_vars

-----------------------------------------------------------------------------
(* The proxy with clients that name the upstream in every form of host      *)
(* string: what the forwarder makes of each before it dials.                *)

InitHosts ==
    /\ binary = "proxy"
    /\ inputs = [sent |-> HostInputs, faults |-> BOOLEAN, replies |-> Replies]
    /\ waiting = HostClients
    /\ mainPc = "accept"
    /\ mainConn = NoConn
    /\ sem = 0
    /\ conns = EmptyBag
    /\ files = InitialFiles

HostsNext ==
    \/ Accept
    \/ Launch
    \/ ParseRequest
    \/ Close
    \/ ProxyNext

SpecHosts == InitHosts /\ [][HostsNext]_vars

-----------------------------------------------------------------------------
(* Properties.                                                             *)

\* the number of handlers in flight among those of the set S
NumHandlers(S) == BagCardinality([c \in S |-> conns[c]])

\* the handler has returned from its body, or finished altogether
Returned(c) == c.pc \in {"release", "close", "done"}

\* the handler has parsed a request and left the dispatcher
PastDispatch(c) ==
    ~ParseFailed(c.req) /\ c.pc \notin {"accepted", "parse", "dispatch"}

\* connections that hold a slot: acquired by the accept loop and not yet
\* released by their handler
PastGate ==
    (IF mainPc = "go" THEN 1 ELSE 0) + NumHandlers({c \in Handlers : c.released = 0})

\* C1: on the server at most 10 connections are past the semaphore gate at
\* any instant, under every interleaving of the accept loop and the handlers.
C1_AtMostTenPastGate ==
    binary = "server" => PastGate <= maxConcurrentRequests

\* ten handlers hold their slots and the accept loop waits with an eleventh
\* connection
C1_Witness ==
    /\ binary = "server"
    /\ PastGate = maxConcurrentRequests
    /\ mainPc = "acquire"

\* C2: every server connection releases one slot exactly once, on every exit
\* path of handleConnection, after its handler body and before conn.Close();
\* when no handler runs and the accept loop waits in Accept no slot is held.
C2_SlotReleasedOnce ==
    binary = "server" =>
        /\ \A c \in Handlers :
              /\ c.released = (IF c.pc \in {"close", "done"} THEN 1 ELSE 0)
        /\ sem = PastGate
        /\ (mainPc = "accept" /\ \A c \in Handlers : c.pc = "done") => sem = 0

\* all clients were served, one of them on an I/O failure path, another one
\* on a parse failure, and no slot is held
C2_Witness ==
    /\ binary = "server"
    /\ waiting = 0
    /\ mainPc = "accept"
    /\ \A c \in Handlers : c.pc = "done" /\ c.released = 1
    /\ \E c \in Handlers : c.iofail
    /\ \E c \in Handlers : ParseFailed(c.req)
    /\ sem = 0

\* C3: on both programs every accepted connection is closed exactly once,
\* by its handler and as the handler's last act, on every exit path, and is
\* neither read nor written after it was closed.
C3_ClosedOnceNeverUsedAfter ==
    /\ mainConn.closed = 0
    /\ \A c \in Handlers :
          /\ c.closed = (IF c.pc = "done" THEN 1 ELSE 0)
          /\ ~c.late

\* a proxy handler whose relay failed half way has closed its connection once
C3_Witness ==
    /\ binary = "proxy"
    /\ \E c \in Handlers :
          /\ c.pc = "done"
          /\ c.closed = 1
          /\ c.iofail
          /\ c.up.read > 0

\* C4: a parsed request with a method other than GET and POST (server), or
\* other than GET (proxy), is answered with 501 and nothing else; on the
\* proxy it never reaches the forwarder and no upstream connection is opened.
C4_DispatchTotal ==
    \A c \in Handlers :
        (/\ PastDispatch(c)
         /\ c.req.method \notin (IF binary = "server" THEN {"GET", "POST"} ELSE {"GET"}))
        => /\ Returned(c)
           /\ c.out = ErrorResponse(StatusNotImplemented, "Not Implemented")
           /\ c.fsOps = 0
           /\ c.target = NoHost
           /\ c.dials = 0
           /\ c.up.state = "none"

\* the proxy has answered a POST with 501
C4_Witness ==
    /\ binary = "proxy"
    /\ \E c \in Handlers :
          /\ c.req.method = "POST"
          /\ c.pc = "done"
          /\ c.out = ErrorResponse(StatusNotImplemented, "Not Implemented")

\* C5: when parsing fails, nothing is written if the stream ended with no
\* data (EOF) or the peer reset the connection, exactly one 400 response is
\* written for every other parse failure, and no method handler runs.
C5_ParseFailureClassified ==
    \A c \in Handlers :
        (ParseFailed(c.req) /\ c.pc # "parse") =>
            /\ Returned(c)
            /\ c.fsOps = 0
            /\ c.dials = 0
            /\ c.out = IF c.req.eof \/ c.req = ErrReset
                       THEN <<>>
                       ELSE ErrorResponse(StatusBadRequest, "Bad Request")

\* C6: when the connect and the request forward succeed and the relay meets
\* no failure, the client is sent exactly the bytes the upstream sent until it
\* closed, in order; while the relay runs, exactly those read so far.
C6_RelayByteExact ==
    \A c \in Handlers :
        (binary = "proxy" /\ c.up.got # <<>>) =>
            /\ c.out = Bytes(SubSeq(c.up.reply, 1, c.up.read))
            /\ (Returned(c) /\ ~c.iofail) => c.out = Bytes(c.up.reply)

\* a two-byte reply was relayed in full
C6_Witness ==
    /\ binary = "proxy"
    /\ \E c \in Handlers :
          /\ c.pc = "done"
          /\ ~c.iofail
          /\ c.up.reply = <<7, 8>>
          /\ c.out = Bytes(<<7, 8>>)

\* the connect or the request forward of handler c has failed
FailedBeforeRelay(c) == c.iofail /\ c.dials > 0 /\ c.up.got = <<>>

\* C7: on the proxy a failed connect or a failed request forward is answered
\* with exactly one 502 and nothing else, the connect is attempted at most
\* once, and no upstream byte is read or relayed.
C7_UpstreamFailureIs502 ==
    \A c \in Handlers :
        /\ c.dials <= 1
        /\ (binary = "proxy" /\ FailedBeforeRelay(c)) =>
              /\ Returned(c)
              /\ c.out \in {ErrorResponse(StatusBadGateway,
                                "Bad Gateway: Could not connect to host"),
                            ErrorResponse(StatusBadGateway,
                                "Bad Gateway: Error writing to remote")}
              /\ Len(StatusCodes(c.out)) = 1
              /\ BodyOf(c.out) = <<>>
              /\ c.up.read = 0

\* the request forward failed: the upstream connection was opened and closed,
\* and the client got a 502
C7_Witness ==
    /\ binary = "proxy"
    /\ \E c \in Handlers :
          /\ FailedBeforeRelay(c)
          /\ c.up.state = "closed"
          /\ c.pc = "done"

\* the request of handler c is a GET in origin form with an empty Host header
NoHostGet(c) ==
    /\ PastDispatch(c)
    /\ c.req.method = "GET"
    /\ c.req.urlHost = NoHost
    /\ c.req.hostHdr = NoHost

\* C8: on the proxy a GET in origin form with an empty Host header is
\* answered with 400 and no upstream connection is ever attempted for it.
C8_MissingHostIs400 ==
    \A c \in Handlers :
        (binary = "proxy" /\ NoHostGet(c)) =>
            /\ c.dials = 0
            /\ c.up.state = "none"
            /\ c.pc # "forward" =>
                  /\ Returned(c)
                  /\ c.out = ErrorResponse(StatusBadRequest,
                                           "Bad Request: Missing host in request")

\* such a request was answered and its connection closed
C8_Witness ==
    /\ binary = "proxy"
    /\ \E c \in Handlers : NoHostGet(c) /\ c.pc = "done"

\* handler c has answered a GET: the request was parsed and the handler
\* has returned
AnsweredGet(c) == c.req.method = "GET" /\ ~ParseFailed(c.req) /\ Returned(c)

\* the response of handler c is 200 OK with body as its body
Is200With(c, body) ==
    /\ Len(StatusCodes(c.out)) = 1
    /\ c.out[1] = Tok("status", StatusOK, "OK")
    /\ BodyOf(c.out) = body

C10_ContentLengthIsBodyLength ==
    \A g \in Handlers :
        (AnsweredGet(g) /\ ~g.iofail /\ g.fh.path # <<>>) =>
            /\ Len(StatusCodes(g.out)) = 1
            /\ g.out[1] = Tok("status", StatusOK, "OK")
            /\ Len(ContentLengths(g.out)) = 1
            /\ ContentLengths(g.out)[1].n = Len(BodyOf(g.out))

\* the request of handler c is a GET the server has routed to handleGet, for
\* a path whose extension is not in the mimeTypes table
UnsupportedGet(c) ==
    /\ PastDispatch(c)
    /\ c.req.method = "GET"
    /\ Ext(GetPath(c.req.path)) \notin DOMAIN mimeTypes

\* C11: on the server a GET for a path with an unregistered extension is
\* answered with the 400 "Unsupported file type" response and nothing else,
\* and no filesystem call (open, stat, read) is ever made for that request.
C11_UnsupportedIs400BeforeFs ==
    \A c \in Handlers :
        (binary = "server" /\ UnsupportedGet(c)) =>
            /\ c.fsOps = 0
            /\ ~c.fh.open
            /\ c.fh.path = <<>>
            /\ c.pc # "get" =>
                  /\ Returned(c)
                  /\ c.out = ErrorResponse(StatusBadRequest,
                                           "Bad Request: Unsupported file type")

\* a GET of /a.bin was answered and its connection closed, with a.txt present
C11_Witness ==
    /\ binary = "server"
    /\ files = ExistingFiles
    /\ \E c \in Handlers :
          /\ UnsupportedGet(c)
          /\ c.req.path = UrlABin
          /\ c.pc = "done"
          /\ c.out # <<>>

\* accepted connections that are not yet closed: the one the accept loop
\* holds, and those of the handlers that have not run conn.Close()
InFlight ==
    (IF mainPc \in {"acquire", "go"} THEN 1 ELSE 0)
        + NumHandlers({c \in Handlers : c.closed = 0})

\* C12: on the server at most 10 accepted connections are in flight at any
\* instant, that is accepted by the listener and not yet closed by their
\* handler.
C12_AtMostTenInFlight ==
    binary = "server" => InFlight <= maxConcurrentRequests

\* the accept loop holds an accepted connection and all slots are taken
GateFull == mainPc = "acquire" /\ sem = maxConcurrentRequests

\* C13: overload is absorbed by stalling, never by rejection: the accept loop
\* never closes or answers the connection it holds; while all 10 slots are
\* held it stays blocked on the semaphore with that connection; and once a
\* slot is free the connection is eventually handed to a handler.
C13_StallNotReject ==
    /\ [](mainConn.closed = 0 /\ mainConn.out = <<>>)
    /\ [](GateFull => mainConn = NewConn /\ ~ENABLED Acquire)
    /\ [][GateFull => (mainPc' = "acquire" /\ mainConn' = mainConn)]_vars
    /\ ((mainPc = "acquire" /\ sem < maxConcurrentRequests) ~> (mainPc = "accept"))

\* the accept loop is blocked with the eleventh connection while one of the
\* ten handlers is about to release its slot
C13_Witness ==
    /\ GateFull
    /\ mainConn = NewConn
    /\ waiting = 0
    /\ \E c \in Handlers : c.pc = "release"

\* the relay of handler c has failed: the request was forwarded and a read
\* from the upstream or a write to the client failed afterwards
FailedInRelay(c) == c.iofail /\ c.up.got # <<>>

\* C14: when the relay fails half way, what the client was sent is a prefix
\* of what the upstream sent, the handler stops there, and nothing else (no
\* 502, no other synthesized response) is ever written to the client.
C14_PartialRelayIsPrefix ==
    \A c \in Handlers :
        (binary = "proxy" /\ FailedInRelay(c)) =>
            /\ Returned(c)
            /\ IsPrefix(c.out, Bytes(c.up.reply))
            /\ StatusCodes(c.out) = <<>>
            /\ \A i \in 1..Len(c.out) : c.out[i].t = "byte"

\* a relay of two bytes failed after the first one, and the connection was
\* closed with one byte sent
C14_Witness ==
    /\ binary = "proxy"
    /\ \E c \in Handlers :
          /\ FailedInRelay(c)
          /\ c.up.reply = <<7, 8>>
          /\ c.out = Bytes(<<7>>)
          /\ c.pc = "done"

\* the port a host string carries: what follows "]:" of a bracketed literal,
\* or the single colon of a name; empty when it carries none
GivenPort(s) ==
    IF s[1] = "["
    THEN LET end == IndexByte(s, "]")
         IN  IF end > 0 /\ end < Len(s) /\ s[end + 1] = ":"
             THEN From(s, end + 2)
             ELSE <<>>
    ELSE IF Cardinality({i \in 1..Len(s) : s[i] = ":"}) = 1
    THEN From(s, IndexByte(s, ":") + 1)
    ELSE <<>>

\* the host a host string names, without brackets and port
GivenHost(s) ==
    IF s[1] = "["
    THEN SubSeq(s, 2, IndexByte(s, "]") - 1)
    ELSE IF Cardinality({i \in 1..Len(s) : s[i] = ":"}) = 1
    THEN SubSeq(s, 1, IndexByte(s, ":") - 1)
    ELSE s

\* C15: every address the forwarder dials is a well-formed host:port with a
\* non-empty port: the port the host string gave, port 80 when it gave none
\* (a name, a name with a trailing colon, an IPv6 literal with or without
\* brackets).
C15_TargetHasPort ==
    \A c \in Handlers :
        (binary = "proxy" /\ c.dials > 0) =>
            LET given == TargetHost(c.req)
                hp == SplitHostPort(c.target)
            IN  /\ hp.err = ""
                /\ hp.host = GivenHost(given)
                /\ hp.port # <<>>
                /\ hp.port = (IF GivenPort(given) # <<>>
                              THEN GivenPort(given)
                              ELSE DefaultPort)

\* the state of a handler without the history kept for the round trip
Local(c) == [c EXCEPT !.posted = {}, !.clobbered = FALSE, !.disturbed = FALSE]

Locals(b) == BagOfAll(Local, b)

\* the handlers of bag b that hold an open handle of the file at path p
HandlesOn(b, p) ==
    BagCardinality([c \in {x \in BagToSet(b) : x.fh.open /\ x.fh.path = p} |-> b[c]])

\* a step of one handler: one record of the bag changes, the others stay
OneHandlerStep ==
    LET old == Locals(conns)
        new == Locals(conns')
    IN  /\ conns # EmptyBag
        /\ BagCardinality(new) = BagCardinality(old)
        /\ BagCardinality(old (-) new) <= 1
        /\ BagCardinality(new (-) old) <= 1

\* a step of the accept loop: no record of the bag changes
AcceptLoopStep ==
    /\ mainPc' # mainPc
    /\ files' = files
    /\ sem' \in {sem, sem + 1}
    /\ \/ conns' = conns
       \/ \E d \in BagToSet(conns') : conns' = Put(conns, d)

\* C16 as stated: a step of one handler changes nothing another handler
\* reads or writes except the semaphore's count: no file is changed while
\* another handler holds it open.
C16_OnlySemShared ==
    [][\A p \in FsPaths : files'[p] # files[p] => HandlesOn(conns', p) <= 1]_vars

\* C16 as amended: a step of one handler leaves the local state of every
\* other handler and of the accept loop unchanged; besides its own state it
\* changes at most the semaphore's count (by its one release) or the file it
\* posts to, and the files are shared by all handlers.
C16_SharedAreSemAndFiles ==
    [][\/ AcceptLoopStep
       \/ /\ OneHandlerStep
          /\ UNCHANGED <<binary, inputs, waiting, mainPc, mainConn>>
          /\ sem' \in {sem, sem - 1}
          /\ \A p \in FsPaths :
                files'[p] # files[p] =>
                    \E d \in BagToSet(conns') :
                        d.req.method = "POST" /\ d.fh.open /\ d.fh.path = p]_vars

\* a POST has written a.txt while a GET held it open
C16_Witness ==
    \E g \in Handlers :
        /\ g.req.method = "GET"
        /\ g.fh.open
        /\ g.fh.path = <<"a.txt">>
        /\ g.disturbed
        /\ files[<<"a.txt">>] # ExistingFiles[<<"a.txt">>]

\* C17: an upstream connection the proxy has opened stays open while the
\* forwarder uses it and is closed exactly once when the forwarder returns
\* (failed request write, relay ended at EOF, relay failed), before the
\* client connection is closed; a handler whose host is missing or whose
\* dial failed has no upstream connection.
C17_UpstreamClosedOnce ==
    \A c \in Handlers :
        binary = "proxy" =>
            /\ c.up.closes = (IF c.up.state = "closed" THEN 1 ELSE 0)
            /\ c.up.state = "open" <=> c.pc \in {"forwardWrite", "relay"}
            /\ c.up.state = "closed" => Returned(c)
            /\ c.closed > 0 => c.up.state # "open"
            /\ (Returned(c) /\ (c.up.got # <<>> \/ c.up.read > 0)) =>
                  c.up.state = "closed"
            /\ c.out = ErrorResponse(StatusBadGateway,
                                     "Bad Gateway: Error writing to remote") =>
                  c.up.state = "closed"
            /\ (c.dials = 0 \/ c.out = ErrorResponse(StatusBadGateway,
                                      "Bad Gateway: Could not connect to host")) =>
                  c.up = NoUpstream

\* two connections were closed: one after a relay that ended at EOF, whose
\* upstream connection was closed once, one after a failed dial, which has
\* no upstream connection
C17_Witness ==
    /\ binary = "proxy"
    /\ \E c \in Handlers :
          /\ c.pc = "done"
          /\ ~c.iofail
          /\ c.up.read = Len(c.up.reply)
          /\ c.up.state = "closed"
          /\ c.up.closes = 1
    /\ \E c \in Handlers :
          /\ c.pc = "done"
          /\ c.dials = 1
          /\ c.up = NoUpstream

\* ten handlers wait in http.ReadRequest for their clients, each holding its
\* slot, no other handler runs, and the accept loop holds a further connection
Stalled ==
    /\ GateFull
    /\ NumHandlers({c \in Handlers : c.pc = "parse"}) = maxConcurrentRequests
    /\ \A c \in Handlers : c.pc \in {"parse", "done"}

\* every connection the accept loop holds is eventually handed to a handler:
\* violated under SpecGateFair by the behaviour that stays in Stalled
EveryAcceptedIsDispatched == (mainPc = "acquire") ~> (mainPc = "accept")

\* C18: with no read deadline, slow clients hold their slots for as long as
\* they like: once ten handlers wait for their requests with the accept loop
\* blocked behind them, no step of the program is enabled but the return of
\* a handler's read, which is up to its client; until a client delivers (or
\* hangs up), all ten slots stay held and no later connection is dispatched.
C18_SlowClientsHoldSlots ==
    /\ [](Stalled => /\ ~ENABLED Accept
                     /\ ~ENABLED Acquire
                     /\ ~ENABLED Launch
                     /\ ~ENABLED Dispatch
                     /\ ~ENABLED Release
                     /\ ~ENABLED Close)
    /\ [][Stalled => /\ mainPc' = "acquire"
                     /\ mainConn' = mainConn
                     /\ sem' = maxConcurrentRequests
                     /\ \A c \in BagToSet(conns') : c.released = 0 \/ c.pc = "done"]_vars

\* that state, with every client connected
C18_Witness ==
    /\ Stalled
    /\ waiting = 0
    /\ \A c \in Handlers : c.pc = "parse" /\ c.req = NoInput /\ c.out = <<>>

\* out holds at most one response: at most one status line, written first,
\* at most one synthesized body, and after the first body byte nothing but
\* body bytes
OneResponse(out) ==
    /\ Len(StatusCodes(out)) <= 1
    /\ \A i \in 2..Len(out) : out[i].t # "status"
    /\ Len(SelectSeq(out, LAMBDA k : k.t = "text")) <= 1
    /\ \A i \in 1..Len(out) : \A j \in (i + 1)..Len(out) :
          out[i].t \in {"byte", "text"} => out[j].t = "byte" /\ out[i].t = "byte"

\* C19: on both programs at most one response is ever started on a client
\* connection: after a status line (of a synthesized error, of 200 or 201)
\* or the first relayed byte, no second status line and no synthesized
\* error follows, whatever fails later in the handler.
C19_AtMostOneResponse ==
    \A c \in Handlers :
        /\ OneResponse(c.out)
        /\ (binary = "proxy" /\ c.up.read > 0) => StatusCodes(c.out) = <<>>

\* a GET was answered 200, the copy of the file failed after the header, and
\* the connection was closed with that one response on it
C19_Witness ==
    /\ binary = "server"
    /\ \E c \in Handlers :
          /\ c.pc = "done"
          /\ c.iofail
          /\ c.out = OkHeaders("text/plain", 2)

\* handlers that were launched and have not received from sem yet
Unreleased == NumHandlers({c \in Handlers : c.released = 0})

\* handler c is in its body: it reads, dispatches or serves its request
InBody(c) == c.pc \notin {"release", "close", "done"}

\* C20: on the server the number of tokens in sem is the number of handlers
\* launched and not yet released, plus one while the accept loop has sent
\* its token and not yet launched the handler; a handler that parses or
\* dispatches holds its slot, so there are never more handlers in their
\* bodies than tokens.
C20_OccupancyIsWorkInFlight ==
    binary = "server" =>
        /\ sem = Unreleased + (IF mainPc = "go" THEN 1 ELSE 0)
        /\ \A c \in Handlers : InBody(c) => c.released = 0
        /\ NumHandlers({c \in Handlers : InBody(c)}) <= sem
        /\ mainPc = "go" => sem >= 1
        /\ sem \in 0..maxConcurrentRequests

\* the channel is full: nine handlers hold slots, some parsing and some
\* dispatching, the accept loop holds the tenth for a handler it has not
\* launched, and one handler has released and finished
C20_Witness ==
    /\ binary = "server"
    /\ mainPc = "go"
    /\ sem = maxConcurrentRequests
    /\ Unreleased = maxConcurrentRequests - 1
    /\ \E c \in Handlers : c.pc = "parse"
    /\ \E c \in Handlers : c.pc = "dispatch"
    /\ \E c \in Handlers : c.pc = "done" /\ c.released = 1

====
